---- MODULE Spec2Model ----
(***************************************************************************)
(* A model of the File Statistics API (src/main.py): the directory scan    *)
(* and its aggregates (collect_file_stats), the Report and PaginatedFiles  *)
(* models, the three /analyze routes, and the /stream route with its chunk *)
(* generator.                                                              *)
(*                                                                         *)
(* Strings of the program (file names, extensions, filters) are sequences  *)
(* of one-character strings, so that splitext, lower and the whitespace    *)
(* stripping of the pydantic models are computed, not assumed.             *)
(***************************************************************************)
EXTENDS Integers, Sequences, FiniteSets, TLC

VARIABLES
    \* one request to /analyze, /analyze/extensions or /analyze/files
    pc,         \* "idle", "scan" (inside collect_file_stats' loop), "done"
    req,        \* the request's parameters
    walk,       \* the files os.walk has yielded so far, in encounter order
    acc,        \* file_count, total_size, extensions, all_files of the scan
    resp,       \* the response: status and body
    \* a client of /analyze/files over a directory that other processes change
    fs,         \* the files of the directory now, in os.walk's order
    sess,       \* the client's walk through the pages: limit, next offset, ...
    last,       \* the last /analyze/files request and its response
    \* one request to /stream
    sPc,        \* "idle", "stat" (is_safe_path passed), "respond", "done"
    sreq,       \* the request's download flag
    fstate,     \* what file_path names now: "file", "dir" or "missing"
    flen,       \* the file's length in chunks
    status,     \* the status sent: 0 (none yet), 200, 400 or 500
    gen,        \* the generator object of generate_file_chunks
    handle,     \* the file object of its with block: "none", "open", "closed"
    sent,       \* chunks yielded to the consumer
    hist        \* what has been observed of the request (for the properties)

scanVars == <<pc, req, walk, acc, resp>>
pageVars == <<fs, sess, last>>
streamVars == <<sPc, sreq, fstate, flen, status, gen, handle, sent, hist>>
vars == <<scanVars, pageVars, streamVars>>

(* ------------------------------ bounds --------------------------------- *)
\* files enumerated by one walk of the step-by-step scan
MaxFiles == 3
\* file sizes are 1..MaxSize bytes
MaxSize == 2
\* files of the large tree, more than largest_files can hold
MaxBigFiles == 11
\* files of the directory a client pages through
MaxPageFiles == 3
\* offsets a client asks for are -1..MaxOffset
MaxOffset == 4
\* a streamed file is 0..MaxChunks chunks long
MaxChunks == 3

(* --------------------------- program constants ------------------------- *)
\* largest_files = all_files[:10]
TopN == 10
\* Report.largest_files: max_length
LargestMaxLen == 50
\* Query(10, ge=1, le=100)
LimitMin == 1
LimitMax == 100
LimitDefault == 10
\* Query(0, ge=0)
OffsetMin == 0
OffsetDefault == 0

(* ------------------------------ strings -------------------------------- *)
\* str.lower(), on the letters the model uses
LowerChar(c) ==
    CASE c = "P" -> "p"
      [] c = "Q" -> "q"
      [] c = "A" -> "a"
      [] OTHER -> c

Lower(s) == [i \in 1..Len(s) |-> LowerChar(s[i])]

\* pydantic's str_strip_whitespace: leading and trailing blanks removed
RECURSIVE StripLeft(_)
StripLeft(s) ==
    IF s # <<>> /\ Head(s) = " " THEN StripLeft(Tail(s)) ELSE s

RECURSIVE StripRight(_)
StripRight(s) ==
    IF s # <<>> /\ s[Len(s)] = " " THEN StripRight(SubSeq(s, 1, Len(s) - 1)) ELSE s

Strip(s) == StripRight(StripLeft(s))

\* index of the last "." of s, 0 when there is none (str.rfind)
LastDot(s) ==
    LET dots == {i \in 1..Len(s) : s[i] = "."}
    IN IF dots = {} THEN 0 ELSE CHOOSE i \in dots : \A j \in dots : j <= i

\* os.path.splitext(f)[1] of a base name: the suffix from the last dot, unless
\* only dots precede it
SplitExt(f) ==
    LET d == LastDot(f)
    IN IF d > 0 /\ \E i \in 1..(d - 1) : f[i] # "."
       THEN SubSeq(f, d, Len(f))
       ELSE <<>>

(* --------------------------- input domains ----------------------------- *)
Names ==
    { <<"a", ".", "p">>, <<"b", ".", "P">>, <<"c">>, <<" ">> }

Sizes == 1..MaxSize

\* Optional[str]: None, or a string
NoFilter == [some |-> FALSE, val |-> <<>>]
SomeFilter(s) == [some |-> TRUE, val |-> s]

Filters ==
    { NoFilter, SomeFilter(<<>>), SomeFilter(<<".", "p">>),
      SomeFilter(<<".", "P">>), SomeFilter(<<".", "q">>) }

\* a test that takes every string, the empty one too, for a filter
TruthyAnyString(flt) == flt.some

\* truth value of an Optional[str] in a condition
Truthy(flt) == flt.some /\ flt.val # <<>>

\* a file as os.walk and os.stat present it: its base name, its place in the
\* tree (which stands for its path), and what stat answers for it
File(n, p, sz, ok) == [name |-> n, path |-> p, size |-> sz, statOK |-> ok]

(* ------------------------------ models --------------------------------- *)
\* FileEntry(...): the validated record; name and extension are stripped
FileEntry(f, ext) ==
    [size |-> f.size, path |-> f.path, name |-> Strip(f.name),
     extension |-> Strip(ext)]

\* FileEntry's field constraints: size >= 0, name of min_length 1 once stripped
\* (the path is absolute by construction, os.path.abspath)
FileEntryValid(f, ext) ==
    /\ f.size >= 0
    /\ Len(Strip(f.name)) >= 1

\* Report.validate_largest_files, and max_length = 50
ValidateLargestFiles(v) ==
    /\ Len(v) <= LargestMaxLen
    /\ \A i \in 1..(Len(v) - 1) : ~(v[i].size < v[i + 1].size)

(* -------------------------- collect_file_stats ------------------------- *)
EmptyMap == [k \in {} |-> [count |-> 0, size |-> 0]]

\* the state of the four accumulators before the first file
InitAcc ==
    [file_count |-> 0, total_size |-> 0, extensions |-> EmptyMap,
     all_files |-> <<>>]

\* extensions[ext]["count"] += 1; extensions[ext]["size"] += size, on a
\* defaultdict that creates the entry on first use
Bump(m, ext, size) ==
    LET old == IF ext \in DOMAIN m THEN m[ext] ELSE [count |-> 0, size |-> 0]
    IN [k \in DOMAIN m \cup {ext} |->
          IF k = ext THEN [count |-> old.count + 1, size |-> old.size + size]
          ELSE m[k]]

\* the filter test of the loop body: TRUE when the file is skipped
FilteredOut(flt, ext) == Truthy(flt) /\ ext # Lower(flt.val)

\* one iteration of the loop, try block and except clause included
ProcessFile(st, f, flt) ==
    IF ~f.statOK THEN st
    ELSE
      LET ext == Lower(SplitExt(f.name))
      IN IF FilteredOut(flt, ext) THEN st
         ELSE
           LET counted ==
                 [st EXCEPT !.total_size = @ + f.size,
                             !.file_count = @ + 1,
                             !.extensions = Bump(@, ext, f.size)]
           IN IF FileEntryValid(f, ext)
              THEN [counted EXCEPT !.all_files = Append(@, FileEntry(f, ext))]
              ELSE counted

\* a sort that puts a record before the records of its own size
RECURSIVE InsertDescUnstable(_, _)
InsertDescUnstable(s, e) ==
    IF s = <<>> THEN <<e>>
    ELSE IF Head(s).size > e.size
         THEN <<Head(s)>> \o InsertDescUnstable(Tail(s), e)
    ELSE <<e>> \o s

\* list.sort(key=size, reverse=True): stable, descending by size
RECURSIVE InsertDesc(_, _)
InsertDesc(s, e) ==
    IF s = <<>> THEN <<e>>
    ELSE IF Head(s).size >= e.size THEN <<Head(s)>> \o InsertDesc(Tail(s), e)
    ELSE <<e>> \o s

RECURSIVE SortDesc(_)
SortDesc(s) ==
    IF s = <<>> THEN <<>>
    ELSE InsertDesc(SortDesc(SubSeq(s, 1, Len(s) - 1)), s[Len(s)])

\* a slice that starts one element early
SliceOffByOne(s, a, b) ==
    LET hi == IF b < Len(s) THEN b ELSE Len(s)
    IN IF a >= hi THEN <<>> ELSE SubSeq(s, IF a > 0 THEN a ELSE 1, hi)

\* s[a:b] of Python for 0 <= a
Slice(s, a, b) ==
    LET hi == IF b < Len(s) THEN b ELSE Len(s)
    IN IF a >= hi THEN <<>> ELSE SubSeq(s, a + 1, hi)

\* the statements after the loop: sort, ExtensionStats, Report(...)
BuildReport(st) ==
    LET sorted == SortDesc(st.all_files)
    IN [file_count |-> st.file_count,
        total_size |-> st.total_size,
        extensions |-> st.extensions,
        largest_files |-> Slice(sorted, 0, TopN),
        all_files |-> sorted]

\* Report's validation of what BuildReport hands it
ReportValid(r) ==
    /\ r.file_count >= 0
    /\ r.total_size >= 0
    /\ \A k \in DOMAIN r.extensions :
          r.extensions[k].count >= 1 /\ r.extensions[k].size >= 0
    /\ ValidateLargestFiles(r.largest_files)

\* the loop of collect_file_stats over a whole tree
RECURSIVE FoldFiles(_, _, _)
FoldFiles(st, files, flt) ==
    IF files = <<>> THEN st
    ELSE FoldFiles(ProcessFile(st, Head(files), flt), Tail(files), flt)

CollectFileStats(files, flt) == BuildReport(FoldFiles(InitAcc, files, flt))

(* ------------------------------ routes --------------------------------- *)
\* a page that announces a successor one record too late
PaginatedFilesEarlyStop(total, limit, offset, results) ==
    [total |-> total, limit |-> limit, offset |-> offset, results |-> results,
     has_next |-> offset + limit + 1 < total,
     has_previous |-> offset > 0]

\* PaginatedFiles(total, limit, offset, results) with its computed fields
PaginatedFiles(total, limit, offset, results) ==
    [total |-> total, limit |-> limit, offset |-> offset, results |-> results,
     has_next |-> offset + limit < total,
     has_previous |-> offset > 0]

\* get_paginated_files after the scan: total, the slice, the page
Paginate(report, limit, offset) ==
    PaginatedFiles(Len(report.all_files), limit, offset,
                   Slice(report.all_files, offset, offset + limit))

\* get_available_extensions after the scan (the order of the list, by count,
\* is not modelled: the entries are kept as a set)
ExtensionList(report) ==
    [total_files |-> report.file_count,
     extensions |-> { [extension |-> k, count |-> report.extensions[k].count,
                       size |-> report.extensions[k].size] :
                      k \in DOMAIN report.extensions }]

\* os.path.isdir(path), by what the path names
IsDir(kind) == kind = "dir"

\* a guard that only asks whether the path exists
RejectsMissingOnly(kind) == kind = "missing"

\* the guard the three routes start with: TRUE when the request is refused
RejectsPath(kind) == ~IsDir(kind)

Endpoints == {"analyze", "extensions", "files"}
PathKinds == {"dir", "file", "missing"}

NoReq == [endpoint |-> "none", kind |-> "none", filter |-> NoFilter,
          limit |-> LimitDefault, offset |-> OffsetDefault]
NoResp == [status |-> 0, body |-> <<>>]

\* the body a route returns from the Report of its scan
RouteBody(r, report) ==
    CASE r.endpoint = "analyze" -> report
      [] r.endpoint = "extensions" -> ExtensionList(report)
      [] OTHER -> Paginate(report, r.limit, r.offset)

\* a request arrives: the directory check, then either the 400 or the call of
\* collect_file_stats (/analyze/extensions passes no filter)
Receive(kinds, filters) ==
    /\ pc = "idle"
    /\ \E e \in Endpoints, k \in kinds, flt \in filters :
         /\ e = "extensions" => flt = NoFilter
         /\ req' = [endpoint |-> e, kind |-> k, filter |-> flt,
                    limit |-> LimitDefault, offset |-> OffsetDefault]
         /\ IF RejectsPath(k)
            THEN /\ pc' = "done"
                 /\ resp' = [status |-> 400, body |-> <<>>]
            ELSE /\ pc' = "scan"
                 /\ resp' = resp
    /\ acc' = InitAcc
    /\ walk' = walk
    /\ UNCHANGED <<pageVars, streamVars>>

\* one iteration of the loop over the files os.walk yields (a file whose
\* stat fails has no size to speak of: it carries the least one)
Walk(names, sizes, oks, maxFiles) ==
    /\ pc = "scan"
    /\ Len(walk) < maxFiles
    /\ \E n \in names, sz \in sizes, ok \in oks :
         /\ ~ok => sz = CHOOSE x \in sizes : \A y \in sizes : x <= y
         /\ LET f == File(n, Len(walk) + 1, sz, ok)
            IN /\ walk' = Append(walk, f)
               /\ acc' = ProcessFile(acc, f, req.filter)
    /\ UNCHANGED <<pc, req, resp, pageVars, streamVars>>

\* os.walk is exhausted: the Report is built and validated, the route answers
Finish ==
    /\ pc = "scan"
    /\ LET report == BuildReport(acc)
       IN resp' = IF ReportValid(report)
                  THEN [status |-> 200, body |-> RouteBody(req, report),
                        report |-> report]
                  ELSE [status |-> 500, body |-> <<>>]
    /\ pc' = "done"
    /\ UNCHANGED <<req, walk, acc, pageVars, streamVars>>

ScanInit ==
    /\ pc = "idle"
    /\ req = NoReq
    /\ walk = <<>>
    /\ acc = InitAcc
    /\ resp = NoResp

NoSess == [state |-> "idle", filter |-> NoFilter, limit |-> LimitDefault,
           next |-> OffsetDefault, got |-> <<>>, changed |-> FALSE]
NoLast == [status |-> 0, body |-> <<>>]

PageIdle ==
    /\ fs = <<>>
    /\ sess = NoSess
    /\ last = NoLast

NoHist == [sawMissing |-> FALSE, clientGone |-> FALSE, streamError |-> FALSE]

StreamIdle ==
    /\ sPc = "idle"
    /\ sreq = [download |-> FALSE]
    /\ fstate = "missing"
    /\ flen = 0
    /\ status = 0
    /\ gen = "none"
    /\ handle = "none"
    /\ sent = 0
    /\ hist = NoHist

Init == ScanInit /\ PageIdle /\ StreamIdle

ReceiveRequest == Receive(PathKinds, Filters)
WalkStep == Walk(Names, Sizes, BOOLEAN, MaxFiles)

Next ==
    \/ ReceiveRequest
    \/ WalkStep
    \/ Finish

Spec == Init /\ [][Next]_vars

\* the same routes over a large tree of files that differ in size and path
\* only: the Report's ordering and its largest_files prefix
BigNames == { <<"c">> }
BigSizes == {1, 2}

ReceiveBig == Receive({"dir"}, {NoFilter})
WalkBig == Walk(BigNames, BigSizes, {TRUE}, MaxBigFiles)

NextBig ==
    \/ ReceiveBig
    \/ WalkBig
    \/ Finish

SpecBig == Init /\ [][NextBig]_vars

(* ------------------- /analyze/files, request by request ---------------- *)
\* get_paginated_files as a whole: the Query bounds (422), the directory
\* check (400), the scan of the directory as it is now, the page
GetPaginatedFiles(kind, files, limit, offset, flt) ==
    IF limit < LimitMin \/ limit > LimitMax \/ offset < OffsetMin
    THEN [status |-> 422, body |-> <<>>]
    ELSE IF RejectsPath(kind)
    THEN [status |-> 400, body |-> <<>>]
    ELSE LET report == CollectFileStats(files, flt)
         IN IF ReportValid(report)
            THEN [status |-> 200, body |-> Paginate(report, limit, offset),
                  report |-> report]
            ELSE [status |-> 500, body |-> <<>>]

PageNames == { <<"a", ".", "p">>, <<"c">> }
PageSizes == {1, 2}
PageFilters == { NoFilter, SomeFilter(<<".", "P">>) }
ProbeLimits == {LimitMin - 1, LimitMin, 2, LimitMax, LimitMax + 1}
ProbeOffsets == (OffsetMin - 1)..MaxOffset
SessionLimits == {LimitMin, 2}

\* the directories a client may find: up to MaxPageFiles files, each with its
\* own path
PageTrees ==
    UNION { { [i \in 1..n |-> File(c[i][1], i, c[i][2], TRUE)] :
              c \in [1..n -> PageNames \X PageSizes] } :
            n \in 0..MaxPageFiles }

PageInit ==
    /\ fs \in PageTrees
    /\ sess = NoSess
    /\ last = NoLast

\* one request with any limit, offset, filter and path
Probe ==
    /\ sess.state = "idle"
    /\ \E k \in PathKinds, l \in ProbeLimits, o \in ProbeOffsets,
          flt \in PageFilters :
         last' = [req |-> [kind |-> k, limit |-> l, offset |-> o, filter |-> flt]]
                   @@ GetPaginatedFiles(k, fs, l, o, flt)
    /\ sess' = [sess EXCEPT !.state = "probed"]
    /\ UNCHANGED <<fs, scanVars, streamVars>>

\* a client sets out to read every page of the directory
StartSession ==
    /\ sess.state = "idle"
    /\ \E l \in SessionLimits, flt \in PageFilters :
         sess' = [state |-> "paging", filter |-> flt, limit |-> l,
                  next |-> 0, got |-> <<>>, changed |-> FALSE]
    /\ UNCHANGED <<fs, last, scanVars, streamVars>>

\* the client's next request, at offset 0, L, 2L, ...: its results are added
\* to what the client has, and has_next tells it whether to go on
NextPage ==
    /\ sess.state = "paging"
    /\ LET r == GetPaginatedFiles("dir", fs, sess.limit, sess.next, sess.filter)
       IN /\ last' = [req |-> [kind |-> "dir", limit |-> sess.limit,
                               offset |-> sess.next, filter |-> sess.filter]]
                        @@ r
          /\ sess' = [sess EXCEPT
                        !.got = @ \o r.body.results,
                        !.next = @ + sess.limit,
                        !.state = IF r.body.has_next THEN "paging" ELSE "complete"]
    /\ UNCHANGED <<fs, scanVars, streamVars>>

\* every element of s but the i-th
RemoveAt(s, i) == SubSeq(s, 1, i - 1) \o SubSeq(s, i + 1, Len(s))

\* between two requests another process deletes a file of the directory or
\* creates one
FsChange ==
    /\ sess.state = "paging"
    /\ ~sess.changed
    /\ \/ \E i \in 1..Len(fs) : fs' = RemoveAt(fs, i)
       \/ \E n \in PageNames, sz \in PageSizes :
            fs' = Append(fs, File(n, MaxPageFiles + 1, sz, TRUE))
    /\ sess' = [sess EXCEPT !.changed = TRUE]
    /\ UNCHANGED <<last, scanVars, streamVars>>

NextPages ==
    \/ Probe
    \/ StartSession
    \/ NextPage
    \/ FsChange

InitPages == ScanInit /\ PageInit /\ StreamIdle

SpecPages == InitPages /\ [][NextPages]_vars

(* ------------------------------ /stream -------------------------------- *)
\* is_safe_path(file_path): the resolved path exists and is a regular file
IsSafePath(what) == what = "file"

\* os.stat(file_path) succeeds on whatever exists
StatSucceeds(what) == what # "missing"

\* open(file_path, 'rb') succeeds on a regular file
OpenSucceeds(what) == what = "file"

GenLive == {"created", "suspended"}
GenEnded == {"finished", "raised", "closed"}

\* a generator whose close() leaves the with block's file as it is
HandleAfterCloseLeaked(g, h) == h

\* generator.close(): GeneratorExit is raised at the yield where the generator
\* is suspended and the with block closes the file on the way out; a generator
\* that never ran has opened nothing
HandleAfterClose(g, h) == IF g = "suspended" THEN "closed" ELSE h

StreamInit ==
    /\ sPc = "idle"
    /\ sreq = [download |-> FALSE]
    /\ fstate \in {"file", "dir", "missing"}
    /\ flen \in 0..MaxChunks
    /\ status = 0
    /\ gen = "none"
    /\ handle = "none"
    /\ sent = 0
    /\ hist = NoHist

\* stream_file up to the security check: 400 unless is_safe_path
StreamRequest ==
    /\ sPc = "idle"
    /\ \E d \in BOOLEAN : sreq' = [download |-> d]
    /\ IF IsSafePath(fstate)
       THEN /\ sPc' = "stat"
            /\ UNCHANGED <<status, hist>>
       ELSE /\ sPc' = "done"
            /\ status' = 400
            /\ hist' = [hist EXCEPT !.sawMissing = TRUE]
    /\ UNCHANGED <<fstate, flen, gen, handle, sent, scanVars, pageVars>>

\* the try block of stream_file: os.stat, the headers, the StreamingResponse
\* around a generator that has not run yet; any exception becomes a 500
StatAndRespond ==
    /\ sPc = "stat"
    /\ IF StatSucceeds(fstate)
       THEN /\ sPc' = "respond"
            /\ status' = 200
            /\ gen' = "created"
            /\ hist' = [hist EXCEPT !.sawMissing = @ \/ fstate # "file"]
       ELSE /\ sPc' = "done"
            /\ status' = 500
            /\ gen' = gen
            /\ hist' = [hist EXCEPT !.sawMissing = TRUE]
    /\ UNCHANGED <<sreq, fstate, flen, handle, sent, scanVars, pageVars>>

\* the consumer asks the generator for its next chunk: on the first call the
\* file is opened; then one read, which yields a chunk, ends the loop at end
\* of file, or fails; leaving the with block closes the file
GenNext ==
    /\ sPc = "respond"
    /\ gen \in GenLive
    /\ IF gen = "created" /\ ~OpenSucceeds(fstate)
       THEN /\ gen' = "raised"
            /\ sPc' = "done"
            /\ hist' = [hist EXCEPT !.sawMissing = TRUE, !.streamError = TRUE]
            /\ UNCHANGED <<handle, sent>>
       ELSE \E readFails \in BOOLEAN :
              /\ IF readFails
                 THEN /\ gen' = "raised"
                      /\ handle' = "closed"
                      /\ sPc' = "done"
                      /\ sent' = sent
                      /\ hist' = [hist EXCEPT !.streamError = TRUE]
                 ELSE IF sent < flen
                 THEN /\ gen' = "suspended"
                      /\ handle' = "open"
                      /\ sPc' = sPc
                      /\ sent' = sent + 1
                      /\ hist' = hist
                 ELSE /\ gen' = "finished"
                      /\ handle' = "closed"
                      /\ sPc' = "done"
                      /\ sent' = sent
                      /\ hist' = hist
    /\ UNCHANGED <<sreq, fstate, flen, status, scanVars, pageVars>>

\* the client goes away while the response is being sent
ClientDisconnect ==
    /\ sPc = "respond"
    /\ gen \in GenLive
    /\ ~hist.clientGone
    /\ hist' = [hist EXCEPT !.clientGone = TRUE]
    /\ UNCHANGED <<sPc, sreq, fstate, flen, status, gen, handle, sent,
                   scanVars, pageVars>>

\* the consumer closes the generator it no longer reads
GenClose ==
    /\ sPc = "respond"
    /\ gen \in GenLive
    /\ hist.clientGone
    /\ gen' = "closed"
    /\ handle' = HandleAfterClose(gen, handle)
    /\ sPc' = "done"
    /\ UNCHANGED <<sreq, fstate, flen, status, sent, hist, scanVars, pageVars>>

\* another process removes the file while the request is being served
FsRemove ==
    /\ sPc \in {"stat", "respond"}
    /\ fstate = "file"
    /\ fstate' = "missing"
    /\ UNCHANGED <<sPc, sreq, flen, status, gen, handle, sent, hist,
                   scanVars, pageVars>>

NextStream ==
    \/ StreamRequest
    \/ StatAndRespond
    \/ GenNext
    \/ ClientDisconnect
    \/ GenClose
    \/ FsRemove

InitStream == ScanInit /\ PageIdle /\ StreamInit

SpecStream == InitStream /\ [][NextStream]_vars

\* the consumer either goes on reading or, once the client is gone, closes
\* the generator
FairSpecStream ==
    /\ SpecStream
    /\ WF_vars(GenNext)
    /\ WF_vars(GenClose)

(* ------------------------ vocabulary of the claims --------------------- *)
Range(s) == {s[i] : i \in 1..Len(s)}

RECURSIVE SumSizes(_)
SumSizes(s) == IF s = <<>> THEN 0 ELSE Head(s).size + SumSizes(Tail(s))

\* the subsequence of s whose elements satisfy Test
RECURSIVE SelectSeq2(_, _)
SelectSeq2(s, keep) ==
    IF s = <<>> THEN <<>>
    ELSE IF Head(s).path \in keep THEN <<Head(s)>> \o SelectSeq2(Tail(s), keep)
    ELSE SelectSeq2(Tail(s), keep)

\* the extension the scan gives a file
ExtOf(f) == Lower(SplitExt(f.name))

\* a file matches a filter as the specification words it: every file when the
\* filter is absent, else the files whose lowercased extension is the
\* lowercased filter
Matches(f, flt) == ~flt.some \/ ExtOf(f) = Lower(flt.val)

\* the files of the walked tree whose metadata could be read
Present == SelectSeq2(walk, {f.path : f \in {g \in Range(walk) : g.statOK}})

\* the files whose processing raises inside the try block: stat fails, or
\* FileEntry refuses the record
Raises(f) == ~f.statOK \/ ~FileEntryValid(f, ExtOf(f))

\* the files of the walk that the filter keeps and that do not raise
Good == SelectSeq2(walk, {f.path : f \in {g \in Range(walk) :
                                           ~Raises(g) /\ ~FilteredOut(req.filter, ExtOf(g))}})

KeysSeen == {ExtOf(f) : f \in Range(walk)} \cup DOMAIN acc.extensions

CountOf(m, k) == IF k \in DOMAIN m THEN m[k].count ELSE 0
SizeOf(m, k) == IF k \in DOMAIN m THEN m[k].size ELSE 0

WithExt(s, k) == SelectSeq2(s, {f.path : f \in {g \in Range(s) : ExtOf(g) = k}})
RecordsWithExt(s, k) ==
    SelectSeq2(s, {e.path : e \in {g \in Range(s) : g.extension = k}})

RECURSIVE SumMap(_, _)
SumMap(m, keys) ==
    IF keys = {} THEN 0
    ELSE LET k == CHOOSE x \in keys : TRUE
         IN m[k].size + SumMap(m, keys \ {k})

Returned == pc = "done" /\ resp.status = 200

(* ------------------------------- claims -------------------------------- *)
\* C1: the Report of a finished scan holds exactly the records of the files of
\* the tree that match the filter (compared in lower case; every file when the
\* filter is absent), total_size is the sum of their sizes and file_count is
\* their number.
C1_ReportIsTheMatchingFiles ==
    Returned =>
      LET r == resp.report
          m == SelectSeq2(Present, {f.path : f \in {g \in Range(Present) :
                                                    Matches(g, req.filter)}})
      IN /\ {e.path : e \in Range(r.all_files)} = {f.path : f \in Range(m)}
         /\ Len(r.all_files) = Len(m)
         /\ r.total_size = SumSizes(m)
         /\ r.total_size = SumSizes(r.all_files)
         /\ r.file_count = Len(m)
         /\ r.file_count = Len(r.all_files)

\* C2: a file whose processing raises inside the try block (stat, or the
\* construction of its FileEntry) is absent from all_files and adds nothing to
\* total_size, file_count or any per-extension count or size, and the scan
\* still ends with a Report.
C2_RaisingFileAddsNothing ==
    /\ pc \in {"scan", "done"} /\ IsDir(req.kind) =>
         /\ \A f \in Range(walk) :
               Raises(f) => f.path \notin {e.path : e \in Range(acc.all_files)}
         /\ acc.total_size = SumSizes(Good)
         /\ acc.file_count = Len(Good)
         /\ \A k \in KeysSeen :
               /\ CountOf(acc.extensions, k) = Len(WithExt(Good, k))
               /\ SizeOf(acc.extensions, k) = SumSizes(WithExt(Good, k))
    /\ pc = "done" /\ IsDir(req.kind) => resp.status = 200

\* C3: after every iteration of the scan loop and in the Report, each key of
\* the extensions map counts and sums exactly the records of all_files with
\* that extension (so its count is at least 1), and total_size is the sum of
\* the sizes of all_files and the sum of the per-extension sizes.
C3_AggregatesConsistent ==
    pc \in {"scan", "done"} /\ IsDir(req.kind) =>
      /\ \A k \in DOMAIN acc.extensions :
            /\ acc.extensions[k].count = Len(RecordsWithExt(acc.all_files, k))
            /\ acc.extensions[k].size = SumSizes(RecordsWithExt(acc.all_files, k))
            /\ acc.extensions[k].count >= 1
      /\ acc.total_size = SumSizes(acc.all_files)
      /\ acc.total_size = SumMap(acc.extensions, DOMAIN acc.extensions)
      /\ Returned =>
            /\ resp.report.extensions = acc.extensions
            /\ resp.report.total_size = SumSizes(resp.report.all_files)

\* the place of the record with path p in the encounter-ordered list s
PlaceOf(s, p) == CHOOSE i \in 1..Len(s) : s[i].path = p

Min(a, b) == IF a < b THEN a ELSE b

\* C4: in every returned Report all_files is in non-increasing size order with
\* equal sizes in encounter order, it holds the records of the scan, sorting it
\* again changes nothing, largest_files is its prefix of min(10, len) records,
\* and the Report's validation never rejects it.
C4_SortedStablePrefix ==
    /\ Returned =>
         LET r == resp.report
             a == r.all_files
         IN /\ Len(a) = Len(acc.all_files)
            /\ Range(a) = Range(acc.all_files)
            /\ \A i, j \in 1..Len(a) :
                  i < j =>
                    /\ a[i].size >= a[j].size
                    /\ a[i].size = a[j].size =>
                         PlaceOf(acc.all_files, a[i].path)
                           < PlaceOf(acc.all_files, a[j].path)
            /\ SortDesc(a) = a
            /\ Len(r.largest_files) = Min(TopN, Len(a))
            /\ \A i \in 1..Len(r.largest_files) : r.largest_files[i] = a[i]
            /\ Len(r.largest_files) <= TopN
    /\ pc = "done" /\ IsDir(req.kind) => resp.status = 200

C4_Witness ==
    /\ Returned
    /\ Len(resp.report.all_files) > TopN
    /\ Len(resp.report.largest_files) = TopN
    /\ resp.report.all_files # acc.all_files
    /\ \E i \in 1..(TopN - 1) :
          resp.report.all_files[i].size = resp.report.all_files[i + 1].size

Max(a, b) == IF a > b THEN a ELSE b

NoRepeat(s) == \A i, j \in 1..Len(s) : s[i].path = s[j].path => i = j

\* C5: a request with limit L in 1..100 and offset O >= 0 on a directory is
\* answered with results = all_files[O : O+L] of the size-ordered inventory of
\* that request, total = len(all_files), len(results) = max(0, min(L, total-O)),
\* has_next = (O+L < total) and has_previous = (O > 0).
C5_PageIsTheSlice ==
    last.status # 0 =>
      LET L == last.req.limit
          O == last.req.offset
          valid == L >= LimitMin /\ L <= LimitMax /\ O >= OffsetMin
      IN /\ valid /\ IsDir(last.req.kind) <=> last.status = 200
         /\ last.status = 200 =>
              LET a == last.report.all_files
                  b == last.body
              IN /\ \A i, j \in 1..Len(a) : i < j => a[i].size >= a[j].size
                 /\ b.total = Len(a)
                 /\ Len(b.results) = Max(0, Min(L, b.total - O))
                 /\ \A i \in 1..Len(b.results) : b.results[i] = a[O + i]
                 /\ O >= b.total => b.results = <<>>
                 /\ b.has_next <=> (O + L < b.total)
                 /\ b.has_previous <=> (O > 0)

C5_Witness ==
    /\ last.status = 200
    /\ last.req.offset > 0
    /\ last.body.has_next
    /\ last.body.has_previous
    /\ Len(last.body.results) = last.req.limit
    /\ last.body.results[1].size < last.report.all_files[1].size

\* C6 as claimed: the pages of a client that steps the offset by the limit
\* until has_next is false add up to all_files, each record once and in order.
C6_PagesReconstructAllFiles ==
    sess.state = "complete" =>
      /\ sess.got = last.report.all_files
      /\ NoRepeat(sess.got)

\* C6 as amended: the pages add up to all_files, each record once and in
\* size order, when the directory holds the same files, in the same order,
\* at every one of the client's requests.
C6_PagesReconstructUnchangedTree ==
    sess.state = "complete" /\ ~sess.changed =>
      /\ sess.got = last.report.all_files
      /\ sess.got = CollectFileStats(fs, sess.filter).all_files
      /\ NoRepeat(sess.got)
      /\ \A i, j \in 1..Len(sess.got) : i < j => sess.got[i].size >= sess.got[j].size

C6_Witness ==
    /\ sess.state = "complete"
    /\ ~sess.changed
    /\ sess.limit = 2
    /\ Len(sess.got) = 3
    /\ sess.next = 4

\* C7: a request whose path is not an existing directory ends with a 400 and
\* never enters collect_file_stats (nothing enumerated, nothing stat'd); the
\* scan runs only for a path that passed the directory check.
C7_BadPathNeverScans ==
    /\ req.endpoint # "none" /\ ~IsDir(req.kind) =>
         /\ pc = "done"
         /\ resp.status = 400
         /\ walk = <<>>
         /\ acc = InitAcc
    /\ pc = "scan" \/ walk # <<>> => IsDir(req.kind)

C7_Witness ==
    \E e \in Endpoints :
       /\ req.endpoint = e
       /\ req.kind \in {"file", "missing"}
       /\ pc = "done"
       /\ resp.status = 400

\* C8: a /stream request whose file_path does not name an existing regular
\* file, at the safety check or at the later stat or open, is answered with a
\* 400 and no stream: never a 500, never a started stream, no chunk sent.
C8_MissingFileIs400 ==
    hist.sawMissing =>
      /\ status \in {0, 400}
      /\ sPc = "done" => status = 400
      /\ gen = "none"
      /\ sent = 0

\* C9: a generator that has ended, by end of file, by a read error or by the
\* consumer's close, has closed its file; an open file is eventually closed;
\* nothing is read once the consumer has closed the generator.
C9_HandleReleased ==
    /\ [](gen \in GenEnded => handle # "open")
    /\ [](gen = "closed" => sPc = "done" /\ ~ENABLED GenNext)
    /\ (handle = "open" ~> handle = "closed")

C9_Witness ==
    /\ gen = "closed"
    /\ hist.clientGone
    /\ handle = "closed"
    /\ sent >= 1
    /\ sent < flen

\* C10: an empty-string filter gives the Report of the unfiltered scan of the
\* same tree, and no filter selects exactly the extensionless files of a tree
\* that also holds files with an extension.
C10_EmptyFilterIsNoFilter ==
    Returned /\ req.endpoint = "analyze" =>
      /\ req.filter = SomeFilter(<<>>) =>
            resp.report = CollectFileStats(walk, NoFilter)
      /\ LET ok == {f \in Range(walk) : ~Raises(f)}
             bare == {f \in ok : ExtOf(f) = <<>>}
         IN bare # {} /\ bare # ok =>
              {e.path : e \in Range(resp.report.all_files)} # {f.path : f \in bare}

C10_Witness ==
    /\ Returned
    /\ req.endpoint = "analyze"
    /\ req.filter = SomeFilter(<<>>)
    /\ \E e \in Range(resp.report.all_files) : e.extension = <<>>
    /\ \E e \in Range(resp.report.all_files) : e.extension = <<".", "p">>

====
